---- MODULE Spec2Model ----
(***************************************************************************)
(* A model of the lexer of src/main.rs: the span type Loc and its merge,   *)
(* the annotated tokens and errors, the sub-lexers (consume_byte and the   *)
(* six single-byte lexers, lex_number, skip_spaces, recognize_many) and    *)
(* the driver loop of lex.  Bytes are one-character strings; offsets are   *)
(* 0-based as in the source, so input[pos] of the source is input[pos + 1] *)
(* here.                                                                   *)
(***************************************************************************)
EXTENDS Integers, Sequences, FiniteSets, TLC

VARIABLES
    input,      \* the byte buffer given to lex or to a sub-lexer
    pos,        \* lex: the scan cursor; a sub-lexer call: its offset argument
    tokens,     \* lex: the accumulator `tokens`
    result,     \* what the call has returned so far (Running before it returns)
    last,       \* the sub-lexer the latest step invoked, and the offset given to it
    self,       \* merge: the receiver
    other,      \* merge: the argument
    merged      \* merge: the value returned (<<>> before the call)

vars == <<input, pos, tokens, result, last, self, other, merged>>

----------------------------------------------------------------------------
(* Bounds *)

\* longest enumerated input of lex
MaxLen == 3
\* longest enumerated buffer handed to a sub-lexer called on its own
MaxBufLen == 2
\* largest offset of an enumerated span
MaxOff == 3

----------------------------------------------------------------------------
(* Bytes *)

\* b"1234567890"
DigitBytes == {"0", "1", "2", "3", "4", "5", "6", "7", "8", "9"}

\* b" \n\t"
SpaceBytes == {" ", "\n", "\t"}

\* the bytes the enumerated inputs are made of: two digits, every operator and
\* parenthesis, every whitespace byte and one byte no arm of lex recognizes
Alphabet == {"0", "1", "+", "-", "*", "/", "(", ")", " ", "\n", "\t", "&"}

DigitValue ==
    [b \in DigitBytes |->
        CASE b = "0" -> 0 [] b = "1" -> 1 [] b = "2" -> 2 [] b = "3" -> 3
          [] b = "4" -> 4 [] b = "5" -> 5 [] b = "6" -> 6 [] b = "7" -> 7
          [] b = "8" -> 8 [] b = "9" -> 9]

\* Every sequence over S of length at most n.
SeqsUpTo(S, n) == UNION {[1..k -> S] : k \in 0..n}

\* "1 + 2 * 3 - -10", the input of test_lexer
TestInput ==
    <<"1", " ", "+", " ", "2", " ", "*", " ", "3", " ", "-", " ", "-", "1", "0">>

\* u64::MAX = 18446744073709551615, digit by digit
U64MaxDigits ==
    <<"1", "8", "4", "4", "6", "7", "4", "4", "0", "7",
      "3", "7", "0", "9", "5", "5", "1", "6", "1", "5">>

\* u64::MAX + 1 = 18446744073709551616
OverflowInput == [U64MaxDigits EXCEPT ![20] = "6"]

\* Inputs longer than the enumerated ones: the test of the source, and digit
\* runs one above the range of u64 (alone, and after an operator).
SampleInputs == {TestInput, OverflowInput, <<"-">> \o OverflowInput}

Inputs == SeqsUpTo(Alphabet, MaxLen) \cup SampleInputs

Buffers == SeqsUpTo(Alphabet, MaxBufLen) \cup SampleInputs

----------------------------------------------------------------------------
(* Loc, Annot, Token, LexError *)

\* struct Loc(usize, usize): l[1] is .0 and l[2] is .1
Loc(a, b) == <<a, b>>

Min(a, b) == IF a <= b THEN a ELSE b
Max(a, b) == IF a >= b THEN a ELSE b

merge_min_end(s, o) == Loc(Min(s[1], o[1]), Min(s[2], o[2]))
merge(s, o) == Loc(Min(s[1], o[1]), Max(s[2], o[2]))

Annot(value, loc) == [value |-> value, loc |-> loc]

Number(n) == [kind |-> "Number", n |-> n]
Plus == [kind |-> "Plus"]
Minus == [kind |-> "Minus"]
Asterisk == [kind |-> "Asterisk"]
Slash == [kind |-> "Slash"]
LParen == [kind |-> "LParen"]
RParen == [kind |-> "RParen"]

InvalidChar(c) == [kind |-> "InvalidChar", c |-> c]
Eof == [kind |-> "Eof"]

\* Result values: Ok(v), Err(e); Panic stands for a call that unwinds instead
\* of returning, and Running for a call that has not returned yet.
Ok(v) == [kind |-> "Ok", value |-> v]
Err(e) == [kind |-> "Err", err |-> e]
Panic == [kind |-> "Panic"]
Running == [kind |-> "Running"]

\* u8 as char: the character whose code point is the byte
AsChar(b) == b

----------------------------------------------------------------------------
(* Sub-lexers.  A successful sub-lexer returns Ok(<<value, next offset>>). *)

consume_byte_reports_expected(inp, p, b) ==
    IF Len(inp) <= p
        THEN Err(Annot(Eof, Loc(p, p)))
    ELSE IF inp[p + 1] # b
        THEN Err(Annot(InvalidChar(AsChar(b)), Loc(p, p + 1)))
    ELSE Ok(<<b, p + 1>>)
consume_byte(inp, p, b) ==
    IF Len(inp) <= p
        THEN Err(Annot(Eof, Loc(p, p)))
    ELSE IF inp[p + 1] # b
        THEN Err(Annot(InvalidChar(AsChar(inp[p + 1])), Loc(p, p + 1)))
    ELSE Ok(<<b, p + 1>>)

\* Result::map with the closure |(_, end)| (kind at Loc(start, end), end)
MapToken(r, kind, start) ==
    IF r.kind = "Ok"
        THEN Ok(<<Annot(kind, Loc(start, r.value[2])), r.value[2]>>)
        ELSE r

lex_plus(inp, start) == MapToken(consume_byte(inp, start, "+"), Plus, start)
lex_minus_expects_plus(inp, start) ==
    MapToken(consume_byte(inp, start, "+"), Minus, start)
lex_minus(inp, start) == MapToken(consume_byte(inp, start, "-"), Minus, start)
lex_asterisk(inp, start) ==
    MapToken(consume_byte(inp, start, "*"), Asterisk, start)
lex_slash(inp, start) == MapToken(consume_byte(inp, start, "/"), Slash, start)
lex_lparen(inp, start) == MapToken(consume_byte(inp, start, "("), LParen, start)
lex_rparen(inp, start) == MapToken(consume_byte(inp, start, ")"), RParen, start)

RECURSIVE recognize_many(_, _, _)
recognize_many(inp, p, F) ==
    IF p < Len(inp) /\ inp[p + 1] \in F
        THEN recognize_many(inp, p + 1, F)
        ELSE p

\* &input[a..b]
Slice(inp, a, b) == SubSeq(inp, a + 1, b)

RECURSIVE StripZeros(_)
StripZeros(s) ==
    IF s # <<>> /\ s[1] = "0" THEN StripZeros(Tail(s)) ELSE s

\* s and t are digit strings of one length: is s > t as a number?
RECURSIVE DigitsGreater(_, _)
DigitsGreater(s, t) ==
    IF s = <<>> THEN FALSE
    ELSE IF s[1] # t[1] THEN DigitValue[s[1]] > DigitValue[t[1]]
    ELSE DigitsGreater(Tail(s), Tail(t))

\* the digit string s denotes a value above u64::MAX
ExceedsU64(s) ==
    LET d == StripZeros(s) IN
        \/ Len(d) > Len(U64MaxDigits)
        \/ Len(d) = Len(U64MaxDigits) /\ DigitsGreater(d, U64MaxDigits)

RECURSIVE DecimalValue(_)
DecimalValue(s) ==
    IF s = <<>> THEN 0
    ELSE 10 * DecimalValue(SubSeq(s, 1, Len(s) - 1)) + DigitValue[s[Len(s)]]

\* str::parse::<u64>: an optional '+', then at least one digit, and a value
\* within the range of u64
parse(s) ==
    IF s = <<>> THEN Err("Empty")
    ELSE LET d == IF s[1] = "+" THEN Tail(s) ELSE s IN
        IF d = <<>> \/ \E i \in 1..Len(d) : d[i] \notin DigitBytes
            THEN Err("InvalidDigit")
        ELSE IF ExceedsU64(d) THEN Err("PosOverflow")
        ELSE Ok(DecimalValue(d))

\* Result::unwrap
Unwrap(r) == IF r.kind = "Ok" THEN r ELSE Panic

\* `end` is computed and never used: the slice, the span and the offset
\* returned are all taken from `pos`, which still equals `start`.
lex_number(inp, p) ==
    LET start == p
        end == recognize_many(inp, start, DigitBytes)
        n == Unwrap(parse(Slice(inp, start, p)))
    IN  IF n.kind = "Panic"
            THEN Panic
            ELSE Ok(<<Annot(Number(n.value), Loc(start, p)), p>>)

skip_spaces_one_byte(inp, p) ==
    LET q == IF p < Len(inp) /\ inp[p + 1] \in SpaceBytes THEN p + 1 ELSE p
    IN  Ok(<<<<>>, q>>)
skip_spaces(inp, p) ==
    LET q == recognize_many(inp, p, SpaceBytes) IN Ok(<<<<>>, q>>)

----------------------------------------------------------------------------
(* The driver: lex.  One action per arm of the match, one for the loop's exit. *)

NoCall == [lexer |-> "none", start |-> 0]
Called(name, start) == [lexer |-> name, start |-> start]

MergeIdle == self = Loc(0, 0) /\ other = Loc(0, 0) /\ merged = <<>>

Init ==
    /\ input \in Inputs
    /\ pos = 0
    /\ tokens = <<>>
    /\ result = Running
    /\ last = NoCall
    /\ MergeIdle

\* the loop's condition holds and the body runs on the byte at pos
Scanning == result.kind = "Running" /\ pos < Len(input)

\* macro lex_a_token: `?` returns the sub-lexer's error from lex; otherwise the
\* token is pushed and pos becomes the offset the sub-lexer returned.  A
\* sub-lexer that panics unwinds lex too.
LexAToken(r) ==
    IF r.kind = "Ok"
        THEN /\ tokens' = Append(tokens, r.value[1])
             /\ pos' = r.value[2]
             /\ UNCHANGED result
        ELSE /\ result' = r
             /\ UNCHANGED <<tokens, pos>>

ArmNumber ==
    /\ Scanning
    /\ input[pos + 1] \in DigitBytes
    /\ last' = Called("lex_number", pos)
    /\ LexAToken(lex_number(input, pos))
    /\ UNCHANGED <<input, self, other, merged>>

ArmPlus ==
    /\ Scanning
    /\ input[pos + 1] = "+"
    /\ last' = Called("lex_plus", pos)
    /\ LexAToken(lex_plus(input, pos))
    /\ UNCHANGED <<input, self, other, merged>>

ArmMinus ==
    /\ Scanning
    /\ input[pos + 1] = "-"
    /\ last' = Called("lex_minus", pos)
    /\ LexAToken(lex_minus(input, pos))
    /\ UNCHANGED <<input, self, other, merged>>

ArmAsterisk ==
    /\ Scanning
    /\ input[pos + 1] = "*"
    /\ last' = Called("lex_asterisk", pos)
    /\ LexAToken(lex_asterisk(input, pos))
    /\ UNCHANGED <<input, self, other, merged>>

ArmSlash ==
    /\ Scanning
    /\ input[pos + 1] = "/"
    /\ last' = Called("lex_slash", pos)
    /\ LexAToken(lex_slash(input, pos))
    /\ UNCHANGED <<input, self, other, merged>>

ArmLParen ==
    /\ Scanning
    /\ input[pos + 1] = "("
    /\ last' = Called("lex_lparen", pos)
    /\ LexAToken(lex_lparen(input, pos))
    /\ UNCHANGED <<input, self, other, merged>>

ArmRParen ==
    /\ Scanning
    /\ input[pos + 1] = ")"
    /\ last' = Called("lex_rparen", pos)
    /\ LexAToken(lex_rparen(input, pos))
    /\ UNCHANGED <<input, self, other, merged>>

ArmSpace ==
    /\ Scanning
    /\ input[pos + 1] \in SpaceBytes
    /\ last' = Called("skip_spaces", pos)
    /\ LET r == skip_spaces(input, pos) IN
        IF r.kind = "Ok"
            THEN pos' = r.value[2] /\ UNCHANGED result
            ELSE result' = r /\ UNCHANGED pos
    /\ UNCHANGED <<input, tokens, self, other, merged>>

\* the bytes some arm before the last one matches
ArmBytes == DigitBytes \cup {"+", "-", "*", "/", "(", ")"} \cup SpaceBytes

ArmOther ==
    /\ Scanning
    /\ input[pos + 1] \notin ArmBytes
    /\ last' = NoCall
    /\ result' = Err(Annot(InvalidChar(AsChar(input[pos + 1])), Loc(pos, pos + 1)))
    /\ UNCHANGED <<input, pos, tokens, self, other, merged>>

\* the loop's condition fails: Ok(tokens)
Return ==
    /\ result.kind = "Running"
    /\ ~(pos < Len(input))
    /\ result' = Ok(tokens)
    /\ UNCHANGED <<input, pos, tokens, last, self, other, merged>>

Next ==
    \/ ArmNumber
    \/ ArmPlus
    \/ ArmMinus
    \/ ArmAsterisk
    \/ ArmSlash
    \/ ArmLParen
    \/ ArmRParen
    \/ ArmSpace
    \/ ArmOther
    \/ Return

Spec == Init /\ [][Next]_vars

----------------------------------------------------------------------------
(* A sub-lexer called on its own, on any buffer and at any offset. *)

SubInit ==
    /\ input \in Buffers
    /\ pos \in 0..(Len(input) + 1)
    /\ tokens = <<>>
    /\ result = Running
    /\ last = NoCall
    /\ MergeIdle

Call(name, r) ==
    /\ result.kind = "Running"
    /\ last' = Called(name, pos)
    /\ result' = r
    /\ UNCHANGED <<input, pos, tokens, self, other, merged>>

CallLexPlus == Call("lex_plus", lex_plus(input, pos))
CallLexMinus == Call("lex_minus", lex_minus(input, pos))
CallLexAsterisk == Call("lex_asterisk", lex_asterisk(input, pos))
CallLexSlash == Call("lex_slash", lex_slash(input, pos))
CallLexLParen == Call("lex_lparen", lex_lparen(input, pos))
CallLexRParen == Call("lex_rparen", lex_rparen(input, pos))

\* lex_number is given an offset whose byte is a digit
CallLexNumber ==
    /\ pos < Len(input)
    /\ input[pos + 1] \in DigitBytes
    /\ Call("lex_number", lex_number(input, pos))

CallSkipSpaces == Call("skip_spaces", skip_spaces(input, pos))

SubNext ==
    \/ CallLexPlus
    \/ CallLexMinus
    \/ CallLexAsterisk
    \/ CallLexSlash
    \/ CallLexLParen
    \/ CallLexRParen
    \/ CallLexNumber
    \/ CallSkipSpaces

SubSpec == SubInit /\ [][SubNext]_vars

----------------------------------------------------------------------------
(* Loc::merge applied to any two spans. *)

Locs == (0..MaxOff) \X (0..MaxOff)

MergeInit ==
    /\ self \in Locs
    /\ other \in Locs
    /\ merged = <<>>
    /\ input = <<>>
    /\ pos = 0
    /\ tokens = <<>>
    /\ result = Running
    /\ last = NoCall

Merge ==
    /\ merged = <<>>
    /\ merged' = merge(self, other)
    /\ UNCHANGED <<input, pos, tokens, result, last, self, other>>

MergeNext == Merge

MergeSpec == MergeInit /\ [][MergeNext]_vars

----------------------------------------------------------------------------
(* What the claims speak of, stated without the lexer's own operators. *)

OperatorBytes == {"+", "-", "*", "/", "(", ")"}
RecognizedBytes == DigitBytes \cup OperatorBytes \cup SpaceBytes

SingleByteLexers ==
    {"lex_plus", "lex_minus", "lex_asterisk", "lex_slash", "lex_lparen", "lex_rparen"}

ExpectedByte(name) ==
    CASE name = "lex_plus" -> "+"
      [] name = "lex_minus" -> "-"
      [] name = "lex_asterisk" -> "*"
      [] name = "lex_slash" -> "/"
      [] name = "lex_lparen" -> "("
      [] name = "lex_rparen" -> ")"

OwnKind(name) ==
    CASE name = "lex_plus" -> Plus
      [] name = "lex_minus" -> Minus
      [] name = "lex_asterisk" -> Asterisk
      [] name = "lex_slash" -> Slash
      [] name = "lex_lparen" -> LParen
      [] name = "lex_rparen" -> RParen

KindOfByte(b) ==
    CASE b = "+" -> Plus
      [] b = "-" -> Minus
      [] b = "*" -> Asterisk
      [] b = "/" -> Slash
      [] b = "(" -> LParen
      [] b = ")" -> RParen

Returned == result.kind # "Running"

ValidInput(inp) == \A i \in 1..Len(inp) : inp[i] \in RecognizedBytes
OnlySpaces(inp) == \A i \in 1..Len(inp) : inp[i] \in SpaceBytes

\* the offset just after the maximal run of bytes of F that starts at offset p
RunEnd(inp, p, F) ==
    CHOOSE e \in p..Max(p, Len(inp)) :
        /\ \A i \in (p + 1)..e : inp[i] \in F
        /\ e >= Len(inp) \/ inp[e + 1] \notin F

\* the offsets at which a maximal digit run starts
RunStarts(inp) ==
    {p \in 0..(Len(inp) - 1) :
        /\ inp[p + 1] \in DigitBytes
        /\ p = 0 \/ inp[p] \notin DigitBytes}

HasOverflowRun(inp) ==
    \E p \in RunStarts(inp) : ExceedsU64(Slice(inp, p, RunEnd(inp, p, DigitBytes)))

\* the offsets of the bytes no arm recognizes
BadOffsets(inp) == {p \in 0..(Len(inp) - 1) : inp[p + 1] \notin RecognizedBytes}
FirstBad(inp) == CHOOSE p \in BadOffsets(inp) : \A q \in BadOffsets(inp) : p <= q

\* one token per maximal non-whitespace lexeme of inp from offset p on
RECURSIVE RefTokens(_, _)
RefTokens(inp, p) ==
    IF p >= Len(inp) THEN <<>>
    ELSE IF inp[p + 1] \in SpaceBytes THEN RefTokens(inp, p + 1)
    ELSE IF inp[p + 1] \in DigitBytes THEN
        LET e == RunEnd(inp, p, DigitBytes) IN
            <<Annot(Number(DecimalValue(Slice(inp, p, e))), Loc(p, e))>>
                \o RefTokens(inp, e)
    ELSE <<Annot(KindOfByte(inp[p + 1]), Loc(p, p + 1))>> \o RefTokens(inp, p + 1)

Covered(tok) == {i \in 0..(Len(input) - 1) : tok.loc[1] <= i /\ i < tok.loc[2]}

\* the spans of toks are pairwise disjoint and cover exactly the non-whitespace bytes
SpansPartition(toks, inp) ==
    /\ \A i, j \in 1..Len(toks) : i # j => Covered(toks[i]) \cap Covered(toks[j]) = {}
    /\ UNION {Covered(toks[i]) : i \in 1..Len(toks)}
         = {p \in 0..(Len(inp) - 1) : inp[p + 1] \notin SpaceBytes}

Contains(outer, inner) == outer[1] <= inner[1] /\ inner[2] <= outer[2]

----------------------------------------------------------------------------
(* Claims *)

\* C1: for every input made only of digits, + - * / ( ) and whitespace, lex
\* returns Ok with one token per maximal non-whitespace lexeme, in source order,
\* the spans pairwise disjoint and covering exactly the non-whitespace bytes.
C1_OneTokenPerLexeme ==
    (ValidInput(input) /\ Returned) =>
        /\ result.kind = "Ok"
        /\ result.value = RefTokens(input, 0)
        /\ SpansPartition(result.value, input)

\* C2: for every input with exactly one unrecognized byte, at offset p, lex
\* returns Err(InvalidChar(that byte)) with the span [p, p+1), and no tokens.
C2_SingleInvalidChar ==
    (Cardinality(BadOffsets(input)) = 1 /\ Returned) =>
        LET p == FirstBad(input) IN
            result = Err(Annot(InvalidChar(input[p + 1]), Loc(p, p + 1)))

\* C3: lex ends in exactly one of two outcomes: Ok with the complete token
\* sequence of the whole input, or Err with the one error raised at the
\* leftmost offending offset, nothing after it scanned and no token returned.
C3_AllOrNothing ==
    Returned =>
        \/ /\ result.kind = "Ok"
           /\ BadOffsets(input) = {}
           /\ pos = Len(input)
           /\ result.value = tokens
        \/ /\ result.kind = "Err"
           /\ BadOffsets(input) # {}
           /\ pos = FirstBad(input)
           /\ result.err.loc = Loc(pos, pos + 1)

\* C4: for the empty input and every input of space, newline and tab bytes only,
\* lex returns Ok with no token; whenever lex meets a whitespace byte the skipper
\* succeeds, moves pos just after the maximal whitespace run and appends nothing.
C4_SkipStep ==
    (Scanning /\ input[pos + 1] \in SpaceBytes) =>
        /\ pos' = RunEnd(input, pos, SpaceBytes)
        /\ pos' > pos
        /\ tokens' = tokens
        /\ result' = result
C4_WhitespaceOnly ==
    /\ [](OnlySpaces(input) =>
            /\ tokens = <<>>
            /\ result \in {Running, Ok(<<>>)}
            /\ pos \in {0, Len(input)}
            /\ result.kind = "Ok" => pos = Len(input))
    /\ [][C4_SkipStep]_vars
C4_Witness ==
    /\ Len(input) >= 2
    /\ OnlySpaces(input)
    /\ last.lexer = "skip_spaces"
    /\ result = Ok(<<>>)

\* C5: when a digit run of the input denotes a value above 2^64 - 1, lex ends
\* with an Err carrying a LexError, never with a Number token.
C5_OverflowIsLexError ==
    (HasOverflowRun(input) /\ Returned) => result.kind = "Err"

\* C6: merge(A, B) starts at the smaller start and ends at the larger end, so it
\* contains A and B, every span containing both contains it, and merge(A, A) = A.
C6_Merge ==
    merged # <<>> =>
        /\ merged[1] \in {self[1], other[1]}
        /\ merged[1] <= self[1] /\ merged[1] <= other[1]
        /\ merged[2] \in {self[2], other[2]}
        /\ merged[2] >= self[2] /\ merged[2] >= other[2]
        /\ Contains(merged, self) /\ Contains(merged, other)
        /\ \A s \in Locs :
            (Contains(s, self) /\ Contains(s, other)) => Contains(s, merged)
        /\ self = other => merged = self
C6_Witness ==
    /\ merged # <<>>
    /\ other[1] < other[2]
    /\ other[2] < self[1]
    /\ self[1] < self[2]

\* C7: lex_number, called at an offset start whose byte is a digit, returns the
\* Number token of the decimal value of the maximal digit run [start, end), with
\* that span, and the next offset end > start.
C7_LexNumber ==
    last.lexer = "lex_number" =>
        LET e == RunEnd(input, pos, DigitBytes) IN
            /\ result.kind = "Ok"
            /\ e > pos
            /\ result.value[2] = e
            /\ result.value[1].loc = Loc(pos, e)
            /\ result.value[1].value = Number(DecimalValue(Slice(input, pos, e)))

\* C8: every iteration of the loop either returns an error or strictly
\* increases pos and keeps it within the input, and the loop's exit returns the
\* accumulated tokens at pos = length of the input.
C8_Step ==
    /\ Scanning =>
        \/ result'.kind = "Err"
        \/ result'.kind = "Running" /\ pos < pos' /\ pos' <= Len(input)
    /\ (result.kind = "Running" /\ ~Scanning) =>
        pos = Len(input) /\ result' = Ok(tokens)
C8_Progress == [][C8_Step]_vars

\* C9: a single-byte sub-lexer at any offset of any buffer fails with Eof at
\* (start, start) past the end, fails with InvalidChar of the byte found at
\* [start, start+1) on another byte, and otherwise returns its own token at
\* [start, start+1) and the offset start+1.
C9_SingleByte ==
    last.lexer \in SingleByteLexers =>
        IF pos >= Len(input)
            THEN result = Err(Annot(Eof, Loc(pos, pos)))
        ELSE IF input[pos + 1] # ExpectedByte(last.lexer)
            THEN result = Err(Annot(InvalidChar(input[pos + 1]), Loc(pos, pos + 1)))
        ELSE result = Ok(<<Annot(OwnKind(last.lexer), Loc(pos, pos + 1)), pos + 1>>)
C9_Witness ==
    /\ last.lexer = "lex_rparen"
    /\ pos < Len(input)
    /\ input[pos + 1] = "("
    /\ result.kind = "Err"

\* C10: lex invokes a single-byte sub-lexer only at an offset within the input
\* whose byte is the one it expects; lex never returns Eof, and every error it
\* returns is the InvalidChar of the last arm, for an unrecognized byte.
C10_NoSubLexerError ==
    /\ last.lexer \in SingleByteLexers =>
        /\ last.start < Len(input)
        /\ input[last.start + 1] = ExpectedByte(last.lexer)
    /\ result.kind = "Err" =>
        /\ result.err.value.kind = "InvalidChar"
        /\ last = NoCall
        /\ pos < Len(input)
        /\ input[pos + 1] \notin RecognizedBytes
        /\ result.err = Annot(InvalidChar(input[pos + 1]), Loc(pos, pos + 1))
C10_Witness ==
    /\ result.kind = "Err"
    /\ Len(tokens) >= 2

====
